---- MODULE Spec2Model ----
(***************************************************************************)
(* State-machine model of the camera application's React components:       *)
(*   - the starter WebcamCapture (live preview only),                      *)
(*   - the WebcamCapture with capture / save / retake,                     *)
(*   - FaceDetection (model loading, camera, detection loop).              *)
(*                                                                         *)
(* One page is mounted per run (page).  React state is modelled by the     *)
(* value of the latest committed render: React commits the re-render of a  *)
(* state update before it dispatches the next user event, so an event      *)
(* handler reads the latest state.  A closure created once (an effect with *)
(* an empty dependency list, and its cleanup) keeps the values of the      *)
(* first render.  A ref (videoRef.current) is read at the time of use.     *)
(***************************************************************************)
EXTENDS Integers, FiniteSets, Sequences, TLC

\* ---------------------------------------------------------------- bounds
MaxStreams == 3      \* streams getUserMedia can hand out in one run
MaxPending == 2      \* getUserMedia calls awaiting their result at once
MaxFrames == 2       \* frames captured in one run
MaxNames == 2        \* file names the endpoint generates in one run
MaxSaveReqs == 2     \* save requests in flight at once
MaxCount == 2        \* saturation of the call counters
MaxRaf == 2          \* animation-frame callbacks pending at once
MaxInFlight == 2     \* detection passes awaiting their result at once
MaxPosts == 3        \* requests the save endpoint receives in one run

None == 0            \* null / undefined

Pages == {"starter", "capture", "detect", "api", "audio"}
Streams == 1..MaxStreams
Frames == 1..MaxFrames
Names == 1..MaxNames

\* videoWidth and videoHeight of a <video> without loaded stream metadata.
NoSize == <<0, 0>>

\* Frame sizes a camera can deliver: the requested width and height are not
\* mandatory, the browser picks the closest mode the device has.
VideoSizes == {<<640, 480>>, <<320, 240>>}

\* Request bodies the save endpoint can receive: text that is not JSON, JSON
\* whose image is not a string, a PNG data URL, a string that is no data URL.
Bodies == {"badJson", "noImage", "dataUrl", "text"}

Nets == {"tinyFaceDetector", "faceExpressionNet"}

\* Keys of detection.expressions in the mapping's iteration order.
ExpressionNames == <<"happy", "neutral", "sad">>

\* Confidence values, in thousandths (820 is 0.82).
Confidences == {80, 100, 820, 826}

VARIABLES
  page,              \* the route whose component is mounted
  mounted,           \* the component has not been unmounted
  streamStatus,      \* per MediaStream: "none" (not created), "live", "stopped"
  acq,               \* getUserMedia calls awaiting their result
  stream,            \* useState stream (capture, detect)
  videoSrc,          \* videoRef.current.srcObject of the rendered <video>
  capturedImage,     \* useState capturedImage: None or a frame
  isSaving,          \* useState isSaving
  savedFileName,     \* useState savedFileName: None or a name
  saveReqs,          \* fetch("/api/save-image") calls awaiting their response
  nextFrame,         \* the next frame capturePhoto produces
  nextName,          \* the next file name the endpoint generates
  namesFor,          \* per frame: names received in success responses for it
  videoSize,         \* <<videoWidth, videoHeight>> of the rendered <video>
  frameSize,         \* per frame: <<width, height>> of its raster
  posts,             \* endpoint: requests received and not answered yet
  nextPost,          \* endpoint: the number of the next request
  responses,         \* endpoint: the responses sent, with their request
  files,             \* endpoint: paths written by writeFile
  isPlaying,         \* AudioPlayer: useState isPlaying
  audioPaused,       \* AudioPlayer: the <audio> element's paused attribute
  playPending,       \* AudioPlayer: a play() promise is not settled yet
  oddToggles,        \* AudioPlayer: togglePlay has run an odd number of times
  nets,              \* per face-api net: "pending", "ok", "failed"
  loader,            \* loadModels: "awaiting", "resolved", "rejected"
  modelsLoaded,      \* useState modelsLoaded
  isVideoPlaying,    \* useState isVideoPlaying
  animationFrameId,  \* the detection-loop effect's animationFrameId
  rafPending,        \* requestAnimationFrame callbacks not yet run
  inFlight,          \* detection passes awaiting detectSingleFace
  overlay,           \* what the overlay canvas shows: "blank" or "box"
  label,             \* the text drawn on the overlay canvas, <<>> if none
  expressions,       \* Object.entries of the detection the text was drawn for
  detectCalls,       \* calls of detectSingleFace (saturating)
  acquireRequests,   \* calls of getUserMedia on the detection page (saturating)
  loadCalls,         \* calls of loadModels (saturating)
  last               \* the handler that ran last: [op, arg, pre, tag]

captureVars == <<stream, videoSrc, capturedImage, isSaving, savedFileName,
                 saveReqs, nextFrame, nextName, namesFor, videoSize,
                 frameSize>>
apiVars == <<posts, nextPost, responses, files>>
audioVars == <<isPlaying, audioPaused, playPending, oddToggles>>
detectVars == <<nets, loader, modelsLoaded, isVideoPlaying, animationFrameId,
                rafPending, inFlight, overlay, label, expressions,
                detectCalls, acquireRequests, loadCalls>>
vars == <<page, mounted, streamStatus, acq, captureVars, detectVars, apiVars,
          audioVars, last>>

\* ---------------------------------------------------------------- helpers
Ev(op, arg, pre, tag) == [op |-> op, arg |-> arg, pre |-> pre, tag |-> tag]

Inc(n) == IF n < MaxCount THEN n + 1 ELSE n

LiveStreams == {s \in Streams : streamStatus[s] = "live"}

FreshStreams == {s \in Streams : streamStatus[s] = "none"}

\* The stream a resolving getUserMedia creates.
NewStream == CHOOSE s \in FreshStreams : \A t \in FreshStreams : s <= t

\* stream.getTracks().forEach((track) => track.stop()) on a stream or null.
StopTracks(st, s) ==
  IF s = None THEN st ELSE [st EXCEPT ![s] = "stopped"]

\* videoRef.current is an element: the capture page renders <video> only in
\* camera mode (!capturedImage); the other pages render it while mounted.
VideoEl ==
  mounted /\ (page = "capture" => capturedImage = None)

\* An identifier for a new pending call, not used by a pending one.
FreshRid(S) == CHOOSE i \in 1..(Cardinality(S) + 1) : \A r \in S : r.rid # i

\* navigator.mediaDevices.getUserMedia(...) called: a pending acquisition.
Acquire(S, origin, prev) ==
  S \cup {[rid |-> FreshRid(S), origin |-> origin, prev |-> prev]}

\* ------------------------------------------------- starter WebcamCapture
\* await getUserMedia resolves: if (videoRef.current) srcObject = stream.
StarterResolve(r) ==
  /\ page = "starter"
  /\ r \in acq
  /\ FreshStreams # {}
  /\ LET s == NewStream IN
       /\ streamStatus' = [streamStatus EXCEPT ![s] = "live"]
       /\ videoSrc' = IF VideoEl THEN s ELSE videoSrc
       /\ last' = Ev("acquired", s, r.prev, r.origin)
  /\ acq' = acq \ {r}
  /\ UNCHANGED <<audioVars, apiVars,
                 page, mounted, stream, capturedImage, isSaving,
                 savedFileName, saveReqs, nextFrame, nextName, namesFor,
                 videoSize, frameSize, detectVars>>

\* await getUserMedia rejects: the catch logs the error.
StarterReject(r) ==
  /\ page = "starter"
  /\ r \in acq
  /\ acq' = acq \ {r}
  /\ last' = Ev("acquireFailed", None, r.prev, r.origin)
  /\ UNCHANGED <<audioVars, apiVars,
                 page, mounted, streamStatus, captureVars, detectVars>>

\* Unmount.  The cleanup reads videoRef.current?.srcObject when it runs.
\* React 17 and later detach the ref of a removed element before they run the
\* effect cleanups of an unmount, earlier versions after: refAttached is
\* whether the ref still holds the element when the cleanup reads it.
StarterUnmount(refAttached) ==
  /\ page = "starter"
  /\ mounted
  /\ mounted' = FALSE
  /\ streamStatus' =
       StopTracks(streamStatus, IF refAttached THEN videoSrc ELSE None)
  /\ videoSrc' = None
  /\ last' = Ev("unmount", None, videoSrc, "starter")
  /\ UNCHANGED <<audioVars, apiVars, page, acq, stream, capturedImage, isSaving,
                 savedFileName, saveReqs, nextFrame, nextName, namesFor,
                 videoSize, frameSize, detectVars>>

\* ------------------------------------------- WebcamCapture (capture/save)
\* The stream the mount effect's cleanup sees.  The effect has the dependency
\* list [], so the cleanup is the first render's closure: useState's null.
CaptureCleanupStream == None

\* The stream startVideo sees when retake calls it: the latest render's.
RetakeClosureStream == stream

\* Variant of SaveEnabled: the button is disabled only once a name is saved
\* (disabled = savedFileName !== null).
SaveEnabled_IgnoresSaving ==
  /\ mounted
  /\ capturedImage # None
  /\ savedFileName = None

\* The Save button reacts to a click: it is rendered (review mode) and not
\* disabled (disabled = isSaving || savedFileName !== null).
SaveEnabled ==
  /\ mounted
  /\ capturedImage # None
  /\ ~(isSaving \/ savedFileName # None)

\* The banner "Saved as: <name>", rendered in review mode only.
SavedBanner ==
  IF mounted /\ capturedImage # None /\ savedFileName # None
    THEN savedFileName ELSE None

\* savePhoto after the response: if (data.success) setSavedFileName(fileName).
SavedFileNameAfter(outcome, name, cur) ==
  IF outcome = "ok" THEN name ELSE cur

\* Variant of IsSavingAfter: setIsSaving(false) at the end of the try's
\* success branch instead of in a finally.
IsSavingAfter_OnSuccessOnly(outcome, cur) ==
  IF outcome = "ok" THEN FALSE ELSE cur

\* Variant of IsSavingAfter: setIsSaving(false) after the if/else of the try,
\* with no finally: a thrown error skips it.
IsSavingAfter_NotOnThrow(outcome, cur) ==
  IF outcome = "throw" THEN cur ELSE FALSE

\* savePhoto's finally: setIsSaving(false).
IsSavingAfter(outcome, cur) == FALSE

\* startVideo after its await resolves.
CaptureResolve(r) ==
  /\ page = "capture"
  /\ r \in acq
  /\ FreshStreams # {}
  /\ LET s == NewStream IN
       /\ streamStatus' = [streamStatus EXCEPT ![s] = "live"]
       /\ videoSrc' = IF VideoEl THEN s ELSE videoSrc
       /\ stream' = IF VideoEl THEN s ELSE stream
       /\ last' = Ev("acquired", s, r.prev, r.origin)
  /\ videoSize' = IF VideoEl THEN NoSize ELSE videoSize
  /\ acq' = acq \ {r}
  /\ UNCHANGED <<audioVars, apiVars, page, mounted, capturedImage, isSaving,
                 savedFileName, saveReqs, nextFrame, nextName, namesFor,
                 frameSize, detectVars>>

\* The <video> has loaded the metadata of the live stream bound to it:
\* videoWidth and videoHeight become the size of the stream's frames.
LoadedMetadata(size) ==
  /\ page = "capture"
  /\ mounted
  /\ videoSrc # None
  /\ streamStatus[videoSrc] = "live"
  /\ videoSize = NoSize
  /\ videoSize' = size
  /\ last' = Ev("metadata", videoSrc, None, "metadata")
  /\ UNCHANGED <<audioVars, apiVars,
                 page, mounted, streamStatus, acq, stream, videoSrc,
                 capturedImage, isSaving, savedFileName, saveReqs, nextFrame,
                 nextName, namesFor, frameSize, detectVars>>

\* startVideo after its await rejects: the catch logs the error.
CaptureReject(r) ==
  /\ page = "capture"
  /\ r \in acq
  /\ acq' = acq \ {r}
  /\ last' = Ev("acquireFailed", None, r.prev, r.origin)
  /\ UNCHANGED <<audioVars, apiVars,
                 page, mounted, streamStatus, captureVars, detectVars>>

\* Variant of CanvasSize: the canvas gets the size asked of getUserMedia.
CanvasSize_Requested(v) == <<640, 480>>

\* canvas.width = video.videoWidth; canvas.height = video.videoHeight.
\* drawImage fills the canvas and toDataURL encodes all of it, so this is
\* the size of the frame's raster.
CanvasSize(v) == <<v[1], v[2]>>

\* Variant of CaptureSetState: the handler resets the whole save state,
\* setIsSaving(false) included.
CaptureSetState_ResetsSaving(frame) ==
  /\ capturedImage' = frame
  /\ savedFileName' = None
  /\ isSaving' = FALSE
  /\ UNCHANGED stream

\* The state updates of capturePhoto: setCapturedImage(imageDataUrl) and
\* setSavedFileName(null); stream and isSaving get no update.
CaptureSetState(frame) ==
  /\ capturedImage' = frame
  /\ savedFileName' = None
  /\ UNCHANGED <<stream, isSaving>>

\* The "Take Photo" button reacts to a click: it is rendered in camera mode.
TakePhotoEnabled == mounted /\ capturedImage = None

\* Variant of RetakeEnabled: the button is disabled while no stream is held
\* (disabled = !stream).
RetakeEnabled_NeedsStream == mounted /\ capturedImage # None /\ stream # None

\* The "Retake Photo" button reacts to a click: it is rendered in review
\* mode and has no disabled attribute.
RetakeEnabled == mounted /\ capturedImage # None

\* "Take Photo".  ctxOk: canvas.getContext("2d") returned a context.
\* Review mode replaces the <video> element by the <img>.
CapturePhoto(ctxOk) ==
  /\ page = "capture"
  /\ TakePhotoEnabled
  /\ nextFrame <= MaxFrames
  /\ IF ctxOk
       THEN /\ CaptureSetState(nextFrame)
            /\ frameSize' =
                 [frameSize EXCEPT ![nextFrame] = CanvasSize(videoSize)]
            /\ nextFrame' = nextFrame + 1
            /\ videoSrc' = None
            /\ videoSize' = NoSize
            /\ last' = Ev("capture", nextFrame, capturedImage, "ok")
       ELSE /\ UNCHANGED <<capturedImage, nextFrame, savedFileName, videoSrc,
                           stream, isSaving, videoSize, frameSize>>
            /\ last' = Ev("capture", None, capturedImage, "noContext")
  /\ UNCHANGED <<audioVars, apiVars, page, mounted, streamStatus, acq, saveReqs,
                 nextName, namesFor, detectVars>>

\* "Retake Photo": clears the photo and the saved name, then startVideo up to
\* its await.  Camera mode renders a new <video> element (srcObject null).
Retake ==
  /\ page = "capture"
  /\ RetakeEnabled
  /\ Cardinality(acq) < MaxPending
  /\ capturedImage' = None
  /\ savedFileName' = None
  /\ streamStatus' = StopTracks(streamStatus, RetakeClosureStream)
  /\ acq' = Acquire(acq, "retake", RetakeClosureStream)
  /\ videoSrc' = None
  /\ videoSize' = NoSize
  /\ last' = Ev("retake", None, capturedImage, "retake")
  /\ UNCHANGED <<audioVars, apiVars,
                 page, mounted, stream, isSaving, saveReqs, nextFrame,
                 nextName, namesFor, frameSize, detectVars>>

\* "Save Photo" clicked: setIsSaving(true) and the POST of capturedImage.
SavePhoto ==
  /\ page = "capture"
  /\ SaveEnabled
  /\ Cardinality(saveReqs) < MaxSaveReqs
  /\ isSaving' = TRUE
  /\ saveReqs' = saveReqs \cup
       {[rid |-> FreshRid(saveReqs), image |-> capturedImage]}
  /\ last' = Ev("save", capturedImage, capturedImage, "save")
  /\ UNCHANGED <<audioVars, apiVars,
                 page, mounted, streamStatus, acq, stream, videoSrc,
                 capturedImage, savedFileName, nextFrame, nextName, namesFor,
                 videoSize, frameSize, detectVars>>

\* savePhoto after its awaits.  outcome: "ok" ({success: true, fileName}),
\* "fail" ({success: false}), "throw" (fetch or response.json() threw).
\* A state update of an unmounted component has no effect.
SaveResponse(r, outcome) ==
  /\ page = "capture"
  /\ r \in saveReqs
  /\ outcome = "ok" => nextName <= MaxNames
  /\ saveReqs' = saveReqs \ {r}
  /\ nextName' = IF outcome = "ok" THEN nextName + 1 ELSE nextName
  /\ namesFor' = IF outcome = "ok"
                   THEN [namesFor EXCEPT ![r.image] = @ \cup {nextName}]
                   ELSE namesFor
  /\ IF mounted
       THEN /\ savedFileName' =
                 SavedFileNameAfter(outcome, nextName, savedFileName)
            /\ isSaving' = IsSavingAfter(outcome, isSaving)
       ELSE UNCHANGED <<savedFileName, isSaving>>
  /\ last' = Ev(IF outcome = "ok" THEN "saveOk" ELSE "saveFailed",
                IF outcome = "ok" THEN nextName ELSE r.image,
                capturedImage, outcome)
  /\ UNCHANGED <<audioVars, apiVars,
                 page, mounted, streamStatus, acq, stream, videoSrc,
                 capturedImage, nextFrame, videoSize, frameSize, detectVars>>

\* Unmount: the mount effect's cleanup stops the stream its closure sees.
CaptureUnmount ==
  /\ page = "capture"
  /\ mounted
  /\ mounted' = FALSE
  /\ streamStatus' = StopTracks(streamStatus, CaptureCleanupStream)
  /\ videoSrc' = None
  /\ videoSize' = NoSize
  /\ last' = Ev("unmount", None, stream, "capture")
  /\ UNCHANGED <<audioVars, apiVars, page, acq, stream, capturedImage, isSaving,
                 savedFileName, saveReqs, nextFrame, nextName, namesFor,
                 frameSize, detectVars>>

\* ---------------------------------------------------------- FaceDetection
\* The cleanup of the model-loading effect (dependency list []) sees the
\* first render's stream: useState's null.
DetectCleanupStream == None

\* Variant of WebcamEffectGuard: startVideo() without the modelsLoaded check.
WebcamEffectGuard_Always(m) == TRUE

\* The webcam effect: if (modelsLoaded) startVideo().
WebcamEffectGuard(m) == m

\* The detection-loop effect: if (modelsLoaded && isVideoPlaying).
LoopStartGuard(m, p) == m /\ p

\* Variant of ModelsLoadedAfter: setModelsLoaded(true) in a finally.
ModelsLoadedAfter_Always(outcome, cur) == TRUE

\* loadModels after Promise.all settles: setModelsLoaded(true) in the try,
\* a log in the catch.
ModelsLoadedAfter(outcome, cur) ==
  IF outcome = "resolved" THEN TRUE ELSE cur

\* Variant of LoadCallsAfter: the catch calls loadModels() again.
LoadCallsAfter_Retry(outcome, n) ==
  IF outcome = "rejected" THEN Inc(n) ELSE n

\* Calls of loadModels after it settles: neither the try nor the catch calls
\* it again.
LoadCallsAfter(outcome, n) == n

\* detectExpressions passes its first check:
\* !videoRef.current || !canvasRef.current || !isVideoPlaying is false.
\* Both refs hold their element while the component is mounted; p is the
\* isVideoPlaying of the closure.
DetectReady(p) == VideoEl /\ mounted /\ p

\* Object.entries(detection.expressions): [name, confidence] pairs in the
\* mapping's iteration order.
Entries(e) == [i \in 1..Len(ExpressionNames) |-> <<ExpressionNames[i], e[i]>>]

\* The confidences face-api can report for the expressions.
ExpressionInputs == [1..Len(ExpressionNames) -> Confidences]

\* Variant of MoreConfident: a[1] >= b[1] ? a : b.
MoreConfident_OrEqual(a, b) == IF a[2] >= b[2] THEN a ELSE b

\* The reducer (a, b) => (a[1] > b[1] ? a : b); a pair's confidence is its
\* second component here.
MoreConfident(a, b) == IF a[2] > b[2] THEN a ELSE b

\* Array.prototype.reduce without an initial value, from index i on with
\* accumulator a.
RECURSIVE ReduceFrom(_, _, _)
ReduceFrom(entries, a, i) ==
  IF i > Len(entries)
    THEN a
    ELSE ReduceFrom(entries, MoreConfident(a, entries[i]), i + 1)

\* dominantExpression = Object.entries(expressions).reduce(...).
DominantExpression(entries) == ReduceFrom(entries, entries[1], 2)

\* Variant of RoundedPercent: Math.floor(confidence * 100).
RoundedPercent_Floor(c) == c \div 10

\* Math.round(confidence * 100) of a confidence of c thousandths: Math.round
\* is floor(x + 0.5).
RoundedPercent(c) == (c + 5) \div 10

\* The template literal `${name}: ${percent}%`, as its parts.
LabelText(d) == <<d[1], ": ", RoundedPercent(d[2]), "%">>

\* A requestAnimationFrame id in use neither by a pending callback nor by
\* animationFrameId.
FreshRaf ==
  CHOOSE i \in 1..(MaxRaf + 2) : i \notin rafPending /\ i # animationFrameId

\* The model state of the design: Loading until Promise.all settles.
ModelState ==
  CASE loader = "resolved" -> "Loaded"
    [] loader = "rejected" -> "Failed"
    [] OTHER -> "Loading"

\* The "Loading models..." overlay: {!modelsLoaded && ...}.
LoadingOverlay == mounted /\ ~modelsLoaded

\* Variant of DepsChanged: the effect has no dependency list and runs again
\* after every render its handler causes.
DepsChanged_EveryRender(old, new) == TRUE

\* React runs an effect again (cleanup first) when a value of its dependency
\* list differs from the previous render's.
DepsChanged(old, new) == old # new

\* The effects that depend on modelsLoaded, run after the render in which it
\* became m: the webcam effect calls startVideo (up to its await), and the
\* detection-loop effect runs its cleanup and starts again.  The loop effect
\* runs once with both flags true, so one animationFrameId stands for the
\* variable of every run.
ModelsLoadedEffects(m) ==
  /\ IF WebcamEffectGuard(m)
       THEN /\ acq' = Acquire(acq, "effect", None)
            /\ acquireRequests' = Inc(acquireRequests)
       ELSE UNCHANGED <<acq, acquireRequests>>
  /\ rafPending' = rafPending \ {animationFrameId}
  /\ animationFrameId' = None
  /\ IF LoopStartGuard(m, isVideoPlaying) /\ DetectReady(isVideoPlaying)
       THEN /\ inFlight' = inFlight + 1
            /\ detectCalls' = Inc(detectCalls)
       ELSE UNCHANGED <<inFlight, detectCalls>>

\* A face-api net finishes loading from /models, or fails to.
NetSettle(n, ok) ==
  /\ page = "detect"
  /\ nets[n] = "pending"
  /\ nets' = [nets EXCEPT ![n] = IF ok THEN "ok" ELSE "failed"]
  /\ last' = Ev("net", None, None, IF ok THEN "ok" ELSE "failed")
  /\ UNCHANGED <<audioVars, apiVars,
                 page, mounted, streamStatus, acq, captureVars, loader,
                 modelsLoaded, isVideoPlaying, animationFrameId, rafPending,
                 inFlight, overlay, label, expressions, detectCalls,
                 acquireRequests, loadCalls>>

\* loadModels after its await: Promise.all resolved (every net loaded) or
\* rejected (a net failed).  A state update of an unmounted component has no
\* effect.
LoadModelsSettle(outcome) ==
  /\ page = "detect"
  /\ loader = "awaiting"
  /\ inFlight < MaxInFlight
  /\ Cardinality(acq) < MaxPending
  /\ outcome = "resolved" => \A n \in Nets : nets[n] = "ok"
  /\ outcome = "rejected" => \E n \in Nets : nets[n] = "failed"
  /\ loader' = outcome
  /\ LET m == IF mounted THEN ModelsLoadedAfter(outcome, modelsLoaded)
                         ELSE modelsLoaded
     IN /\ modelsLoaded' = m
        /\ IF DepsChanged(modelsLoaded, m)
             THEN ModelsLoadedEffects(m)
             ELSE UNCHANGED <<acq, acquireRequests, rafPending,
                              animationFrameId, inFlight, detectCalls>>
  /\ loadCalls' = LoadCallsAfter(outcome, loadCalls)
  /\ last' = Ev("load", None, None, outcome)
  /\ UNCHANGED <<audioVars, apiVars,
                 page, mounted, streamStatus, captureVars, nets,
                 isVideoPlaying, overlay, label, expressions>>

\* startVideo after its await resolves.
DetectResolve(r) ==
  /\ page = "detect"
  /\ r \in acq
  /\ FreshStreams # {}
  /\ LET s == NewStream IN
       /\ streamStatus' = [streamStatus EXCEPT ![s] = "live"]
       /\ videoSrc' = IF VideoEl THEN s ELSE videoSrc
       /\ stream' = IF VideoEl THEN s ELSE stream
       /\ last' = Ev("acquired", s, r.prev, r.origin)
  /\ acq' = acq \ {r}
  /\ UNCHANGED <<audioVars, apiVars, page, mounted, capturedImage, isSaving,
                 savedFileName, saveReqs, nextFrame, nextName, namesFor,
                 videoSize, frameSize, detectVars>>

\* startVideo after its await rejects: the catch logs the error.
DetectReject(r) ==
  /\ page = "detect"
  /\ r \in acq
  /\ acq' = acq \ {r}
  /\ last' = Ev("acquireFailed", None, r.prev, r.origin)
  /\ UNCHANGED <<audioVars, apiVars,
                 page, mounted, streamStatus, captureVars, detectVars>>

\* onPlay: the <video> plays a bound, live stream.  setIsVideoPlaying(true);
\* assigning canvas.width clears the overlay canvas.  When the flag changes,
\* the detection-loop effect runs its cleanup and starts again.
HandleVideoPlay ==
  /\ page = "detect"
  /\ mounted
  /\ videoSrc # None
  /\ streamStatus[videoSrc] = "live"
  /\ inFlight < MaxInFlight
  /\ isVideoPlaying' = TRUE
  /\ overlay' = "blank"
  /\ label' = <<>>
  /\ expressions' = <<>>
  /\ IF DepsChanged(isVideoPlaying, TRUE)
       THEN /\ rafPending' = rafPending \ {animationFrameId}
            /\ animationFrameId' = None
            /\ IF LoopStartGuard(modelsLoaded, TRUE) /\ DetectReady(TRUE)
                 THEN /\ inFlight' = inFlight + 1
                      /\ detectCalls' = Inc(detectCalls)
                 ELSE UNCHANGED <<inFlight, detectCalls>>
       ELSE UNCHANGED <<rafPending, animationFrameId, inFlight, detectCalls>>
  /\ last' = Ev("play", None, None, "play")
  /\ UNCHANGED <<audioVars, apiVars,
                 page, mounted, streamStatus, acq, captureVars, nets, loader,
                 modelsLoaded, acquireRequests, loadCalls>>

\* detectExpressions after its await.  res: "face" (a detection), "none"
\* (undefined) or "throw" (the awaited promise rejected); e: the confidences
\* of the detection's expressions; ctxOk: canvas.getContext("2d") returned a
\* context.  video and canvas are locals of the call, so this runs after an
\* unmount too.  With a face the canvas is cleared and the box and the text
\* are drawn; without one nothing is drawn or cleared.  The next cycle is
\* requested at the end of the function only.
DetectionResolve(res, e, ctxOk) ==
  /\ page = "detect"
  /\ inFlight > 0
  /\ Cardinality(rafPending) < MaxRaf
  /\ inFlight' = inFlight - 1
  /\ IF res = "throw" \/ (res = "face" /\ ~ctxOk)
       THEN /\ UNCHANGED <<overlay, label, expressions, animationFrameId,
                           rafPending>>
            /\ last' = Ev("detected", None, None,
                          IF res = "throw" THEN "throw" ELSE "noContext")
       ELSE /\ IF res = "face"
                 THEN /\ overlay' = "box"
                      /\ expressions' = Entries(e)
                      /\ label' = LabelText(DominantExpression(Entries(e)))
                 ELSE UNCHANGED <<overlay, label, expressions>>
            /\ animationFrameId' = FreshRaf
            /\ rafPending' = rafPending \cup {FreshRaf}
            /\ last' = Ev("detected", FreshRaf, None, res)
  /\ UNCHANGED <<audioVars, apiVars,
                 page, mounted, streamStatus, acq, captureVars, nets, loader,
                 modelsLoaded, isVideoPlaying, detectCalls, acquireRequests,
                 loadCalls>>

\* The browser runs a pending animation-frame callback: detectExpressions up
\* to its await (or its early return).
AnimationFrame(id) ==
  /\ page = "detect"
  /\ id \in rafPending
  /\ inFlight < MaxInFlight
  /\ rafPending' = rafPending \ {id}
  /\ IF DetectReady(isVideoPlaying)
       THEN /\ inFlight' = inFlight + 1
            /\ detectCalls' = Inc(detectCalls)
            /\ last' = Ev("frame", id, None, "pass")
       ELSE /\ UNCHANGED <<inFlight, detectCalls>>
            /\ last' = Ev("frame", id, None, "skipped")
  /\ UNCHANGED <<audioVars, apiVars,
                 page, mounted, streamStatus, acq, captureVars, nets, loader,
                 modelsLoaded, isVideoPlaying, animationFrameId, overlay,
                 label, expressions, acquireRequests, loadCalls>>

\* Unmount: the loop effect's cleanup cancels animationFrameId, the
\* model-loading effect's cleanup stops the stream its closure sees.
DetectUnmount ==
  /\ page = "detect"
  /\ mounted
  /\ mounted' = FALSE
  /\ rafPending' = rafPending \ {animationFrameId}
  /\ streamStatus' = StopTracks(streamStatus, DetectCleanupStream)
  /\ videoSrc' = None
  /\ last' = Ev("unmount", None, stream, "detect")
  /\ UNCHANGED <<audioVars, apiVars, page, acq, stream, capturedImage, isSaving,
                 savedFileName, saveReqs, nextFrame, nextName, namesFor,
                 videoSize, frameSize, nets, loader,
                 modelsLoaded, isVideoPlaying, animationFrameId, inFlight,
                 overlay, label, expressions, detectCalls, acquireRequests,
                 loadCalls>>

\* --------------------------------------------------- POST /api/save-image
\* fileName = `${randomName}.png`.
FileName(randomName) == <<randomName, ".png">>

\* join(publicPath, fileName) under the working directory.
FilePath(fileName) == <<"public", "captured-photos", fileName>>

\* req.json() resolves: the body is JSON.
ParsesAsJson(body) == body # "badJson"

\* image.replace(...) and Buffer.from(base64Data, "base64") return: image is
\* a string.  Buffer.from skips what is not base64, it does not throw.
Decodes(body) == body \in {"dataUrl", "text"}

\* Variant of PostResult: the response is sent without awaiting writeFile.
PostResult_WriteNotAwaited(body, writeOk, randomName) ==
  IF ParsesAsJson(body) /\ Decodes(body)
    THEN [json |-> [success |-> TRUE, fileName |-> FileName(randomName)],
          status |-> 200,
          written |-> IF writeOk THEN {FilePath(FileName(randomName))}
                                 ELSE {}]
    ELSE [json |-> [success |-> FALSE, error |-> "Failed to save image"],
          status |-> 500,
          written |-> {}]

\* The handler for a request with this body, when writeFile succeeds or
\* fails and randomBytes gives randomName: the response (its JSON and
\* status) and the paths written.  Any throw inside the try ends in the catch.
PostResult(body, writeOk, randomName) ==
  IF ParsesAsJson(body) /\ Decodes(body) /\ writeOk
    THEN [json |-> [success |-> TRUE, fileName |-> FileName(randomName)],
          status |-> 200,
          written |-> {FilePath(FileName(randomName))}]
    ELSE [json |-> [success |-> FALSE, error |-> "Failed to save image"],
          status |-> 500,
          written |-> {}]

\* A client sends POST /api/save-image.
PostRequest(body) ==
  /\ page = "api"
  /\ nextPost <= MaxPosts
  /\ posts' = posts \cup {[rid |-> nextPost, body |-> body]}
  /\ nextPost' = nextPost + 1
  /\ last' = Ev("post", nextPost, None, body)
  /\ UNCHANGED <<audioVars, page, mounted, streamStatus, acq, captureVars,
                 detectVars,
                 responses, files>>

\* The handler runs for a received request and returns its response.
\* randomBytes(16) is taken as never repeating a name.
PostHandle(q, writeOk) ==
  /\ page = "api"
  /\ q \in posts
  /\ LET res == PostResult(q.body, writeOk, q.rid) IN
       /\ files' = files \cup res.written
       /\ responses' = responses \cup
            {[rid |-> q.rid, body |-> q.body, writeOk |-> writeOk,
              json |-> res.json, status |-> res.status]}
       /\ last' = Ev("response", q.rid, res.status,
                     IF res.json.success THEN "success" ELSE "failure")
  /\ posts' = posts \ {q}
  /\ UNCHANGED <<audioVars, page, mounted, streamStatus, acq, captureVars,
                 detectVars,
                 nextPost>>

\* ------------------------------------------------------------ AudioPlayer
\* audioRef.current is the <audio> element: it is rendered on every render
\* of the mounted component.
AudioEl == mounted

\* The element is playing: its paused attribute is false.
AudioPlaying == ~audioPaused

\* The button text: {isPlaying ? "Pause" : "Play"}.
ButtonText == IF isPlaying THEN "Pause" ELSE "Play"

\* The method togglePlay calls on the element: none without an element,
\* pause() if isPlaying, play() otherwise.
ToggleCall(el, playing) ==
  IF ~el THEN "none" ELSE IF playing THEN "pause" ELSE "play"

\* Variant of IsPlayingAfterToggle: setIsPlaying(!isPlaying) placed after the
\* if (audioRef.current) block.
IsPlayingAfterToggle_Unguarded(el, playing) == ~playing

\* isPlaying after togglePlay: setIsPlaying(!isPlaying) inside
\* if (audioRef.current).
IsPlayingAfterToggle(el, playing) == IF el THEN ~playing ELSE playing

\* The button is clicked: togglePlay.  play() clears the paused attribute at
\* once and returns a promise; pause() sets the attribute and rejects a
\* pending play() promise.  Neither promise is awaited or caught.
TogglePlay ==
  /\ page = "audio"
  /\ mounted
  /\ LET call == ToggleCall(AudioEl, isPlaying) IN
       /\ audioPaused' = CASE call = "play" -> FALSE
                            [] call = "pause" -> TRUE
                            [] OTHER -> audioPaused
       /\ playPending' = CASE call = "play" -> TRUE
                            [] call = "pause" -> FALSE
                            [] OTHER -> playPending
       /\ last' = Ev("toggle", None, IF isPlaying THEN 1 ELSE 0, call)
  /\ isPlaying' = IsPlayingAfterToggle(AudioEl, isPlaying)
  /\ oddToggles' = ~oddToggles
  /\ UNCHANGED <<page, mounted, streamStatus, acq, captureVars, detectVars,
                 apiVars>>

\* The promise of play() settles: playback has started (ok), or the source
\* could not be loaded or played and the element is paused again.  The
\* component has no handler for either.
PlaySettle(ok) ==
  /\ page = "audio"
  /\ playPending
  /\ playPending' = FALSE
  /\ audioPaused' = IF ok THEN audioPaused ELSE TRUE
  /\ last' = Ev("playSettled", None, None, IF ok THEN "started" ELSE "rejected")
  /\ UNCHANGED <<page, mounted, streamStatus, acq, captureVars, detectVars,
                 apiVars, isPlaying, oddToggles>>

\* Playback reaches the end of the track: the element pauses itself.  The
\* <audio> has no onEnded or onPause handler.
PlaybackEnded ==
  /\ page = "audio"
  /\ ~audioPaused
  /\ ~playPending
  /\ audioPaused' = TRUE
  /\ last' = Ev("ended", None, None, "ended")
  /\ UNCHANGED <<page, mounted, streamStatus, acq, captureVars, detectVars,
                 apiVars, isPlaying, playPending, oddToggles>>

\* ------------------------------------------------------- specification
\* The state after the first render and its effects: the starter and the
\* capture page have called startVideo (stream null, getUserMedia pending);
\* the detection page has called loadModels and run the webcam effect and the
\* loop effect with both flags false.
Init ==
  /\ page \in Pages
  /\ mounted = TRUE
  /\ streamStatus = [s \in Streams |-> "none"]
  /\ acq = CASE page = "detect" ->
                    (IF WebcamEffectGuard(FALSE)
                       THEN Acquire({}, "effect", None) ELSE {})
               [] page \in {"api", "audio"} -> {}
               [] OTHER -> Acquire({}, "mount", None)
  /\ stream = None
  /\ videoSrc = None
  /\ capturedImage = None
  /\ isSaving = FALSE
  /\ savedFileName = None
  /\ saveReqs = {}
  /\ nextFrame = 1
  /\ nextName = 1
  /\ namesFor = [f \in Frames |-> {}]
  /\ videoSize = NoSize
  /\ frameSize = [f \in Frames |-> NoSize]
  /\ posts = {}
  /\ nextPost = 1
  /\ responses = {}
  /\ files = {}
  /\ isPlaying = FALSE
  /\ audioPaused = TRUE
  /\ playPending = FALSE
  /\ oddToggles = FALSE
  /\ nets = [n \in Nets |-> "pending"]
  /\ loader = "awaiting"
  /\ modelsLoaded = FALSE
  /\ isVideoPlaying = FALSE
  /\ animationFrameId = None
  /\ rafPending = {}
  /\ inFlight = 0
  /\ overlay = "blank"
  /\ label = <<>>
  /\ expressions = <<>>
  /\ detectCalls = 0
  /\ acquireRequests = IF page = "detect" /\ WebcamEffectGuard(FALSE)
                         THEN 1 ELSE 0
  /\ loadCalls = IF page = "detect" THEN 1 ELSE 0
  /\ last = Ev("mount", None, None, page)

Next ==
  \/ \E r \in acq : StarterResolve(r)
  \/ \E r \in acq : StarterReject(r)
  \/ \E refAttached \in BOOLEAN : StarterUnmount(refAttached)
  \/ \E r \in acq : CaptureResolve(r)
  \/ \E r \in acq : CaptureReject(r)
  \/ \E size \in VideoSizes : LoadedMetadata(size)
  \/ \E ctxOk \in BOOLEAN : CapturePhoto(ctxOk)
  \/ Retake
  \/ SavePhoto
  \/ \E r \in saveReqs, outcome \in {"ok", "fail", "throw"} :
       SaveResponse(r, outcome)
  \/ CaptureUnmount
  \/ \E n \in Nets, ok \in BOOLEAN : NetSettle(n, ok)
  \/ \E outcome \in {"resolved", "rejected"} : LoadModelsSettle(outcome)
  \/ \E r \in acq : DetectResolve(r)
  \/ \E r \in acq : DetectReject(r)
  \/ HandleVideoPlay
  \/ \E res \in {"face", "none", "throw"}, e \in ExpressionInputs,
          ctxOk \in BOOLEAN :
       DetectionResolve(res, e, ctxOk)
  \/ \E id \in rafPending : AnimationFrame(id)
  \/ DetectUnmount
  \/ \E body \in Bodies : PostRequest(body)
  \/ \E q \in posts, writeOk \in BOOLEAN : PostHandle(q, writeOk)
  \/ TogglePlay
  \/ \E ok \in BOOLEAN : PlaySettle(ok)
  \/ PlaybackEnded

Spec == Init /\ [][Next]_vars

\* ---------------------------------------------------------------- claims

\* C1: on the capture page at most one acquired stream has live tracks, in
\* every reachable state.
C1_AtMostOneLiveStream ==
  page = "capture" => Cardinality(LiveStreams) <= 1

\* C2: retake clears capturedImage and savedFileName, and once the
\* acquisition it started succeeds the new stream is bound to the video
\* element and the stream held before the retake is stopped.
C2_RetakeReacquires ==
  page = "capture" /\ mounted =>
    /\ last.op = "retake" => capturedImage = None /\ savedFileName = None
    /\ last.op = "acquired" /\ last.tag = "retake" =>
         /\ videoSrc = last.arg
         /\ last.pre # None => streamStatus[last.pre] = "stopped"

\* C3: when a component that holds a stream unmounts, right after the
\* unmount that stream has no live track.
C3_UnmountStopsStream ==
  last.op = "unmount" /\ last.pre # None => streamStatus[last.pre] # "live"

\* C4: per captured frame at most one save request is in flight and at most
\* one file name is ever received for it; while a request is in flight the
\* Save button does not react, so no further request is issued.
C4_SingleSavePerFrame ==
  page = "capture" =>
    /\ \A f \in Frames : Cardinality({r \in saveReqs : r.image = f}) <= 1
    /\ \A f \in Frames : Cardinality(namesFor[f]) <= 1
    /\ saveReqs # {} => ~SaveEnabled

\* C4 witness: a save of the frame under review is in flight.
C4_SaveInFlight ==
  /\ page = "capture"
  /\ mounted
  /\ isSaving
  /\ \E r \in saveReqs : r.image = capturedImage

\* C5 as stated: after a failed save isSaving is false, savedFileName is
\* none, the Save button is enabled and capturedImage is the frame the
\* attempt was made for.
C5_FailureKeepsAttemptFrame ==
  page = "capture" /\ mounted /\ last.op = "saveFailed" =>
    /\ ~isSaving
    /\ savedFileName = None
    /\ SaveEnabled
    /\ capturedImage = last.arg

\* C5 amended: after a failed save (mounted component) isSaving is false,
\* savedFileName is none, capturedImage is what it was when the response
\* arrived, and the Save button is enabled whenever a frame is under review.
C5_FailureKeepsState ==
  page = "capture" /\ mounted /\ last.op = "saveFailed" =>
    /\ ~isSaving
    /\ savedFileName = None
    /\ capturedImage = last.pre
    /\ capturedImage # None => SaveEnabled

\* C5 witness: a save of the frame under review has just failed.
C5_FailedInReview ==
  /\ page = "capture"
  /\ mounted
  /\ last.op = "saveFailed"
  /\ capturedImage = last.arg

\* C6: after a success response savedFileName is the response's fileName,
\* the banner shows it and the Save button is disabled; savedFileName set
\* implies the Save button is disabled.
C6_SavedShownAndDisabled ==
  page = "capture" /\ mounted =>
    /\ last.op = "saveOk" =>
         /\ savedFileName = last.arg
         /\ SavedBanner = last.arg
         /\ ~SaveEnabled
    /\ savedFileName # None => ~SaveEnabled

\* C7: while the models are not loaded (loading pending or failed) no
\* detection pass has been made and none is in flight.
C7_NoDetectionUnlessLoaded ==
  page = "detect" /\ ModelState # "Loaded" => detectCalls = 0 /\ inFlight = 0

\* C7 witness: loading has failed, the effects have run, and no pass was made.
C7_FailedNoDetection ==
  /\ page = "detect"
  /\ mounted
  /\ ModelState = "Failed"
  /\ last.op = "load"
  /\ detectCalls = 0

\* C8: the camera is requested only once the models are loaded, and a
\* detection pass is made only once the video has reported playing.
C8_OrderedStartup ==
  page = "detect" =>
    /\ acquireRequests > 0 \/ acq # {} \/ LiveStreams # {} =>
         ModelState = "Loaded" /\ modelsLoaded
    /\ detectCalls > 0 \/ inFlight > 0 \/ rafPending # {} => isVideoPlaying

\* C8 witness: the camera was requested and a detection pass was made.
C8_LoopStarted ==
  /\ page = "detect"
  /\ acquireRequests > 0
  /\ detectCalls > 0

\* C9: loadModels is called once; once it has failed, it stays failed,
\* modelsLoaded is false, the loading overlay is shown while mounted, no
\* camera stream is requested and no detection pass is made.
C9_FailedStaysLoading ==
  /\ [](page = "detect" =>
          /\ loadCalls = 1
          /\ ModelState = "Failed" =>
               /\ ~modelsLoaded
               /\ mounted => LoadingOverlay
               /\ acquireRequests = 0 /\ acq = {} /\ LiveStreams = {}
               /\ detectCalls = 0 /\ inFlight = 0 /\ rafPending = {})
  /\ [][ModelState = "Failed" => ModelState' = "Failed"]_vars

\* C9 witness: loading has failed with the page still mounted.
C9_LoadFailed ==
  /\ page = "detect"
  /\ mounted
  /\ ModelState = "Failed"
  /\ \E n \in Nets : nets[n] = "failed"

\* C10: after the detection page has unmounted no animation-frame callback
\* of the detection loop is pending.
C10_UnmountCancelsLoop ==
  page = "detect" /\ ~mounted => rafPending = {}

\* C11 as stated: the expression named on the overlay has the maximum
\* confidence of the detection, and no entry before it in iteration order has
\* that confidence (the first maximum is chosen).
C11_DominantIsFirstMaximum ==
  page = "detect" /\ label # <<>> =>
    \E i \in DOMAIN expressions :
      /\ expressions[i][1] = label[1]
      /\ \A j \in DOMAIN expressions : expressions[j][2] <= expressions[i][2]
      /\ \A j \in DOMAIN expressions :
           j < i => expressions[j][2] < expressions[i][2]

\* C11 amended: the expression named on the overlay has the maximum
\* confidence of the detection, and no entry after it in iteration order has
\* that confidence (the last maximum is chosen).
C11_DominantIsLastMaximum ==
  page = "detect" /\ label # <<>> =>
    \E i \in DOMAIN expressions :
      /\ expressions[i][1] = label[1]
      /\ \A j \in DOMAIN expressions : expressions[j][2] <= expressions[i][2]
      /\ \A j \in DOMAIN expressions :
           j > i => expressions[j][2] < expressions[i][2]

\* C11 witness: a label is drawn for a detection in which two entries share
\* the maximum confidence.
C11_TieAtMaximum ==
  /\ page = "detect"
  /\ label # <<>>
  /\ \E i, j \in DOMAIN expressions :
       /\ i # j
       /\ expressions[i][2] = expressions[j][2]
       /\ \A k \in DOMAIN expressions : expressions[k][2] <= expressions[i][2]

\* C12: the text on the overlay is '<name>: <p>%' where name is an entry of
\* the detection and p is the integer nearest to 100 times the maximum
\* confidence; for {happy: 0.82, neutral: 0.10, sad: 0.08} it is 'happy: 82%'.
C12_LabelIsRoundedPercent ==
  page = "detect" /\ label # <<>> =>
    /\ \E i \in DOMAIN expressions, p \in 0..100 :
         /\ \A j \in DOMAIN expressions :
              expressions[j][2] <= expressions[i][2]
         /\ 10 * p - expressions[i][2] <= 5
         /\ expressions[i][2] - 10 * p <= 5
         /\ label = <<expressions[i][1], ": ", p, "%">>
    /\ expressions = <<<<"happy", 820>>, <<"neutral", 100>>, <<"sad", 80>>>>
         => label = <<"happy", ": ", 82, "%">>

\* C12 witness: the label of {happy: 0.82, neutral: 0.10, sad: 0.08} is drawn.
C12_HappyExample ==
  /\ page = "detect"
  /\ expressions = <<<<"happy", 820>>, <<"neutral", 100>>, <<"sad", 80>>>>
  /\ label = <<"happy", ": ", 82, "%">>

\* C13: a capture that succeeds produces a frame whose raster width and
\* height are the video element's videoWidth and videoHeight at the moment
\* capturePhoto runs.
C13_FrameHasVideoSize ==
  [][capturedImage = None /\ capturedImage' # None =>
       frameSize'[capturedImage'] = videoSize]_vars

\* C13 witness: the frame under review was captured from a video that had
\* loaded its stream's metadata.
C13_SizedFrame ==
  /\ page = "capture"
  /\ last.op = "capture"
  /\ capturedImage # None
  /\ frameSize[capturedImage] \in VideoSizes

\* C14: a capturePhoto step sets capturedImage to the new frame and
\* savedFileName to none and leaves the held stream, the state of every
\* stream's tracks, isSaving and the pending requests as they were; and while
\* the page stays in review mode and mounted no live stream is stopped.
C14_CaptureKeepsStream ==
  /\ [][last'.op = "capture" /\ last' # last =>
          /\ stream' = stream
          /\ streamStatus' = streamStatus
          /\ isSaving' = isSaving
          /\ saveReqs' = saveReqs /\ acq' = acq /\ mounted' = mounted
          /\ last'.tag = "ok" =>
               capturedImage' = last'.arg /\ savedFileName' = None
          /\ last'.tag # "ok" =>
               capturedImage' = capturedImage /\ savedFileName' = savedFileName
       ]_vars
  /\ [][capturedImage # None /\ capturedImage' # None /\ mounted' =>
          \A s \in Streams :
            streamStatus[s] = "live" => streamStatus'[s] = "live"]_vars

\* C14 witness: a frame has just been captured while a save is in flight and
\* the held stream is live.
C14_CapturedWithLiveStream ==
  /\ page = "capture"
  /\ last.op = "capture" /\ last.tag = "ok"
  /\ stream # None
  /\ streamStatus[stream] = "live"
  /\ isSaving

\* C16: a failed camera acquisition changes nothing but the pending call: no
\* stream is created, bound or stored and the component stays mounted; on the
\* capture page the retake action, which re-attempts the acquisition, is then
\* enabled in review mode and one "Take Photo" away in camera mode (while the
\* run's frames last).
C16_FailedAcquisitionIsContained ==
  /\ [][last'.op = "acquireFailed" /\ acq' # acq =>
          /\ stream' = stream
          /\ videoSrc' = videoSrc
          /\ streamStatus' = streamStatus
          /\ mounted' = mounted
          /\ capturedImage' = capturedImage]_vars
  /\ [](page = "capture" /\ mounted /\ last.op = "acquireFailed" =>
          /\ capturedImage # None => ENABLED Retake
          /\ capturedImage = None /\ nextFrame <= MaxFrames =>
               ENABLED (CapturePhoto(TRUE) /\ RetakeEnabled'))

\* C16 witness: the capture page's acquisition on mount has failed, the page
\* is mounted in camera mode and holds no stream.
C16_MountAcquisitionFailed ==
  /\ page = "capture"
  /\ mounted
  /\ last.op = "acquireFailed"
  /\ last.tag = "mount"
  /\ stream = None
  /\ capturedImage = None

\* C17: every request the endpoint has handled has exactly one response and
\* every pending one none; a response is {success: true, fileName} with
\* status 200, sent only when the body parsed, the image was decoded and the
\* file of that name was written under public/captured-photos, with a name no
\* other response carries; otherwise it is {success: false, error} with no
\* fileName, and nothing was written for it.
C17_OneResponseOfTwoShapes ==
  page = "api" =>
    /\ \A i \in 1..MaxPosts :
         Cardinality({x \in responses : x.rid = i}) =
           IF i < nextPost /\ ~(\E q \in posts : q.rid = i) THEN 1 ELSE 0
    /\ \A x \in responses :
         IF ParsesAsJson(x.body) /\ Decodes(x.body) /\ x.writeOk
           THEN /\ DOMAIN x.json = {"success", "fileName"}
                /\ x.json.success
                /\ FilePath(x.json.fileName) \in files
                /\ \A y \in responses :
                     y # x /\ y.json.success =>
                       y.json.fileName # x.json.fileName
           ELSE /\ DOMAIN x.json = {"success", "error"}
                /\ ~x.json.success
    /\ \A f \in files :
         \E x \in responses : x.json.success /\ f = FilePath(x.json.fileName)

\* C17 witness: the endpoint has sent a success response and a failure
\* response caused by writeFile.
C17_BothShapesSent ==
  /\ page = "api"
  /\ \E x \in responses : x.json.success
  /\ \E x \in responses : ~x.json.success /\ Decodes(x.body) /\ ~x.writeOk

\* C18: loadModels is called exactly once; modelsLoaded, once true, stays
\* true; and once loading has settled (loaded or failed) the model state
\* does not change again.
C18_ModelStateChangesOnce ==
  /\ [](page = "detect" => loadCalls = 1)
  /\ [][modelsLoaded => modelsLoaded']_vars
  /\ [][ModelState # "Loading" => ModelState' = ModelState]_vars

\* C18 witness: the models are loaded and the page went on to detection.
C18_LoadedAndDetecting ==
  /\ page = "detect"
  /\ modelsLoaded
  /\ ModelState = "Loaded"
  /\ detectCalls > 0

\* C19: on the mounted capture page isSaving is true exactly while a save
\* request awaits its response; right after a response or a thrown error
\* isSaving is false, with savedFileName the response's name after a success
\* and none after a failure.
C19_SavingEndsWithRequest ==
  page = "capture" /\ mounted =>
    /\ isSaving <=> saveReqs # {}
    /\ last.op \in {"saveOk", "saveFailed"} => ~isSaving
    /\ last.op = "saveOk" => savedFileName = last.arg
    /\ last.op = "saveFailed" => savedFileName = None

\* C19 witness: a save request has just thrown and the page left Saving.
C19_ThrownSaveLeftSaving ==
  /\ page = "capture"
  /\ mounted
  /\ last.op = "saveFailed"
  /\ last.tag = "throw"
  /\ ~isSaving

\* C15: right after a detection cycle that found no face the overlay is
\* blank: it shows neither a box nor a text.
C15_NoFaceBlankOverlay ==
  page = "detect" /\ last.op = "detected" /\ last.tag = "none" =>
    overlay = "blank" /\ label = <<>>

\* C20: while the page is mounted with the models loaded and the video
\* playing, right after a detection cycle (face found, none found, or skipped
\* for a missing drawing context) a next cycle is scheduled.
C20_CycleSchedulesNext ==
  /\ page = "detect" /\ mounted /\ modelsLoaded /\ isVideoPlaying
  /\ last.op = "detected"
  /\ last.tag \in {"face", "none", "noContext"}
  => rafPending # {}

\* C21: a togglePlay step with the audio element mounted calls pause if
\* isPlaying was true and play otherwise, and flips isPlaying; isPlaying is
\* its initial value after every even number of toggles; without an element
\* togglePlay calls nothing and leaves isPlaying as it is.
C21_ToggleFlips ==
  /\ [][last'.op = "toggle" /\ oddToggles' # oddToggles /\ AudioEl =>
          /\ last'.tag = (IF isPlaying THEN "pause" ELSE "play")
          /\ isPlaying' = ~isPlaying]_vars
  /\ [](page = "audio" =>
          /\ isPlaying = oddToggles
          /\ \A playing \in BOOLEAN :
               /\ ToggleCall(FALSE, playing) = "none"
               /\ IsPlayingAfterToggle(FALSE, playing) = playing)

\* C21 witness: two toggles have run, the second one called pause, and
\* isPlaying is false again.
C21_ToggledTwice ==
  /\ page = "audio"
  /\ last.op = "toggle" /\ last.tag = "pause"
  /\ ~oddToggles
  /\ ~isPlaying

\* C22: whenever savedFileName is set on the mounted capture page, a frame
\* is under review and the name was returned by a save request issued for
\* that frame.
C22_SavedNameBelongsToFrame ==
  page = "capture" /\ mounted /\ savedFileName # None =>
    /\ capturedImage # None
    /\ savedFileName \in namesFor[capturedImage]

\* C23: right after getUserMedia has returned a stream, the stream is bound
\* to the video element or stored in the stream state of the mounted
\* component, or it has no live track.
C23_NoOrphanedStream ==
  last.op = "acquired" =>
    \/ mounted /\ (videoSrc = last.arg \/ stream = last.arg)
    \/ streamStatus[last.arg] # "live"

\* C24: on the detection page the detection passes in flight and the
\* animation-frame callbacks pending are never more than one in total.
C24_SingleDetectionLoop ==
  page = "detect" => inFlight + Cardinality(rafPending) <= 1

\* C24 witness: the video has reported playing again while a detection pass
\* of the running loop is in flight.
C24_PlayAgainWhileDetecting ==
  /\ page = "detect"
  /\ last.op = "play"
  /\ detectCalls > 1
  /\ inFlight = 1

\* C25: in every state of the AudioPlayer isPlaying (and the button text
\* "Pause") holds exactly when the audio element is playing.
C25_IsPlayingMatchesPlayback ==
  page = "audio" =>
    /\ isPlaying <=> AudioPlaying
    /\ ButtonText = "Pause" <=> AudioPlaying

====
